---- MODULE Spec2Model ----
(***************************************************************************)
(* Model of the GhostWriterAI generation pipeline:                         *)
(*   - the orchestrator of src/src/orchestration/graph.py (start, pause,   *)
(*     resume, revision loop, finalize),                                   *)
(*   - the ExecutionTracker of src/src/orchestration/callbacks.py,         *)
(*   - BaseAgent.execute of src/backend/src/agents/base_agent.py (with     *)
(*     retries) and of src/src/agents/base_agent.py (single attempt).      *)
(***************************************************************************)
EXTENDS Integers, Sequences, FiniteSets, TLC

(***************************************************************************)
(* Bounds of the model.                                                    *)
(***************************************************************************)
\* largest max_revisions of a state built by the caller
MaxSupplied == 3
\* number of continue_generation calls issued on one state
MaxResumes == 2
\* number of callbacks registered on the tracker
MaxCallbacks == 1
\* number of BaseAgent.execute calls in one behaviour of SpecAgent
MaxExecCalls == 2
\* number of callbacks registered on the tracker in SpecEmit
MaxSubscribers == 2
\* number of _emit calls in one behaviour of SpecEmit
MaxEmits == 3
\* number of tasks that call _emit on one tracker in SpecEmit
MaxTasks == 2
\* number of runs (post_ids) in SpecRuns
MaxRuns == 2
\* number of callbacks registered in SpecRuns
MaxRunSubscribers == 2
\* largest revision_count and max_revisions of the states SpecDecision routes
MaxRouted == 4
\* number of POST {post_id}/answers requests issued for the post of SpecAnswers
MaxAnswerers == 2
\* number of answers/stream requests issued for the post of SpecStream
\* after its generate/stream request
MaxSubmits == 1

(***************************************************************************)
(* Program constants.                                                      *)
(***************************************************************************)
DECISION_APPROVE == "APPROVE"
DECISION_REFINE == "REFINE"
DECISION_REJECT == "REJECT"
VALIDATOR_DECISIONS == {DECISION_APPROVE, DECISION_REFINE, DECISION_REJECT}
OPTIMIZER_DECISIONS == {"APPROVE", "REVISE"}
FORMAT_TEXT == "text"
FORMAT_CAROUSEL == "carousel"
FORMAT_VIDEO == "video"
POST_FORMATS == {FORMAT_TEXT, FORMAT_CAROUSEL, FORMAT_VIDEO}
Agents == {"validator", "strategist", "writer", "visual", "optimizer"}
\* max_revisions of the initial state built by run_generation(_with_tracking)
DefaultMaxRevisions == 2
\* BaseAgent.max_retries
max_retries == 3
\* BaseAgent.retry_delay
retry_delay == 1

AGENT_PROGRESS ==
  [a \in Agents \cup {"finalize"} |->
     CASE a = "validator" -> 15
       [] a = "strategist" -> 30
       [] a = "writer" -> 55
       [] a = "visual" -> 75
       [] a = "optimizer" -> 90
       [] OTHER -> 100]

(***************************************************************************)
(* Values of the AgentState dictionary.  A missing key is AbsentV, the     *)
(* Python None is NoneV, a dictionary is a record of kind "dict".          *)
(***************************************************************************)
AbsentV == [kind |-> "absent"]
NoneV == [kind |-> "none"]

\* dict.get(key, default)
Get(v, default) == IF v = AbsentV THEN default ELSE v
EmptyDict == [kind |-> "dict"]
\* attribute access on None raises AttributeError
IsNone(v) == v = NoneV

QuestionLists == {<< >>, <<"q1">>}
HookLists == {<<3, 5>>}
Answers == {"a1"}

ValidatorOutputs == {[kind |-> "dict", decision |-> d] : d \in VALIDATOR_DECISIONS}
StrategistOutputs ==
  {[kind |-> "dict", recommended_format |-> f, clarifying_questions |-> q] :
     f \in POST_FORMATS, q \in QuestionLists}
WriterOutputs == {[kind |-> "dict", hooks |-> h] : h \in HookLists}
VisualOutputs == {[kind |-> "dict", total_slides |-> 3]}
OptimizerOutputs == {[kind |-> "dict", decision |-> d] : d \in OPTIMIZER_DECISIONS}

VARIABLES
  state,          \* the AgentState dictionary of the run
  pc,             \* position of the orchestrator's task
  op,             \* operation in progress or last finished: none, start, resume
  entry,          \* how the state came to be: none, run_generation,
                  \* run_generation_with_tracking, supplied
  use_tracker,    \* the tracker argument of the current call is not None
  revision_local, \* local variable revision_count of continue_generation
  events,         \* ExecutionTracker.events
  callbacks,      \* ExecutionTracker.callbacks
  tcurrent,       \* ExecutionTracker.current_agent
  received,       \* per callback, the events it was called with
  calls,          \* per agent, the number of execute calls of the run
  resumes,        \* number of continue_generation calls so far
  snap,           \* the run as it was when the current resume was entered
  a_pc,           \* BaseAgent.execute: position
  a_variant,      \* BaseAgent.execute: which source tree's execute
  a_agent,        \* BaseAgent.execute: agent_name of the agent
  attempt,        \* BaseAgent.execute: loop variable attempt
  last_error,     \* BaseAgent.execute: local last_error
  a_errors,       \* errors raised by _execute during the current call
  a_invocations,  \* number of _execute invocations of the current call
  a_sleeps,       \* asyncio.sleep delays of the current call
  a_results,      \* results returned by the execute calls, in order
  a_raised,       \* number of execute calls that raised to their caller
  a_calls         \* number of execute calls begun

VARIABLES
  tracked_states, \* streaming.py: the run's post_id is a key of _tracked_states
  active_trackers \* callbacks.py: the run's post_id is a key of _active_trackers

VARIABLES
  e_lock,         \* ExecutionTracker._lock: the task holding it, 0 when free
  e_waiters,      \* ExecutionTracker._lock: the tasks waiting for it, in order
  e_pc,           \* per task, its position in _emit
  e_idx,          \* per task, the index of the for loop over self.callbacks
  e_event,        \* per task, the event argument of its _emit call
  e_emitted,      \* number of _emit calls begun
  e_reg,          \* per callback, the number of events whose _emit call had
                  \* returned when the callback was registered
  faulty          \* the callbacks that raise when they are called

orchVars == <<state, pc, op, entry, use_tracker, revision_local, events,
              callbacks, tcurrent, received, calls, resumes, snap>>
agentVars == <<a_pc, a_variant, a_agent, attempt, last_error, a_errors,
               a_invocations, a_sleeps, a_results, a_raised, a_calls>>
VARIABLES
  r_pc,           \* per post_id, the position of its run_generation_with_tracking
  r_states,       \* per post_id, the AgentState of its run
  r_trackers,     \* _active_trackers: per key, the tracker stored under it
  r_subs,         \* per callback, the post_id whose request registered it
  r_received      \* per callback, the events it was called with

VARIABLES
  d_pc,           \* the revise decision: input, routed or evaluated
  d_input,        \* the state handed to the decision
  d_state,        \* that state object after the decision was evaluated
  d_result        \* what the decision returned

routeVars == <<tracked_states, active_trackers>>
emitVars == <<e_lock, e_waiters, e_pc, e_idx, e_event, e_emitted, e_reg,
              faulty>>
runVars == <<r_pc, r_states, r_trackers, r_subs, r_received>>
VARIABLES
  s_pc,           \* per request: where its handler and background task are
  s_queue,        \* per request: everything put on its events_queue
  s_read,         \* per request: how many queue items _stream_events took
  s_closed,       \* per request: _stream_events has left its loop
  s_trackers,     \* every ExecutionTracker get_tracker created for the post
  s_active,       \* index of the tracker in _active_trackers, 0 if none
  s_ref,          \* per request: the tracker its task holds
  s_tracked,      \* post_id in _tracked_states
  s_saves,        \* per emitted event: calls of HistoryService.save_event
  s_answers       \* number of writes of state["user_answers"]

streamVars == <<s_pc, s_queue, s_read, s_closed, s_trackers, s_active, s_ref,
                s_tracked, s_saves, s_answers>>
VARIABLES
  p_pc,           \* per answers request: where its handler is
  p_stored,       \* post_id in _generation_states
  p_answers,      \* number of writes of state["user_answers"]
  p_writer,       \* state["writer_output"] of the stored state
  p_decision,     \* the decision of state["optimizer_output"]
  p_revision      \* state["revision_count"]

answersVars == <<p_pc, p_stored, p_answers, p_writer, p_decision, p_revision>>
decisionVars == <<d_pc, d_input, d_state, d_result>>
otherVars == <<runVars, decisionVars, streamVars, answersVars>>
coreVars == <<orchVars, agentVars, emitVars, routeVars>>
vars == <<orchVars, agentVars, emitVars, routeVars, otherVars>>

CallbackIds == 1..MaxCallbacks

(***************************************************************************)
(* ExecutionTracker                                                        *)
(***************************************************************************)
AgentEvent(type, agent, message, progress, detail) ==
  [event_type |-> type, agent_name |-> agent, message |-> message,
   progress_percent |-> progress, detail |-> detail]

\* agent_started: the event it emits
StartedEvent(agent) ==
  AgentEvent("agent_start", agent, "analyzing", AGENT_PROGRESS[agent] - 10, 0)

\* agent_completed: the event it emits for an output that is a dictionary
CompletedEvent(agent) ==
  AgentEvent("agent_complete", agent, "completed", AGENT_PROGRESS[agent], 0)

\* status_update: agent_name is self.current_agent or "system"
StatusEvent(cur, message, progress, detail) ==
  AgentEvent("status_update", IF cur = "none" THEN "system" ELSE cur,
             message, progress, detail)

\* complete
CompleteEvent ==
  AgentEvent("complete", "system", "Post generation complete", 100, 0)

\* _generate_summary raises AttributeError on an output that is None
SummaryRaises(output) == IsNone(output)

Registered == {callbacks[i] : i \in DOMAIN callbacks}

\* _emit, for the events evs emitted one after another by one step
Emit(evs) ==
  /\ events' = events \o evs
  /\ received' = [c \in CallbackIds |->
                    IF c \in Registered THEN received[c] \o evs ELSE received[c]]

\* on_event.  The callers register a callback before they start the task of
\* an operation (streaming.py: tracker.on_event, then asyncio.create_task), so
\* a registration falls between operations; only runs served with tracking
\* have a tracker to register on.  Callbacks are numbered in the order of
\* their registration.
OnEvent(c) ==
  /\ c = Len(callbacks) + 1
  /\ \/ pc = "idle"
     \/ pc \in {"returned", "raised"} /\ use_tracker
  /\ callbacks' = Append(callbacks, c)
  /\ UNCHANGED <<state, pc, op, entry, use_tracker, revision_local, events,
                 tcurrent, received, calls, resumes, snap>>
  /\ UNCHANGED agentVars
  /\ UNCHANGED emitVars
  /\ UNCHANGED otherVars
  /\ UNCHANGED routeVars

(***************************************************************************)
(* Stage results as the orchestrator sees them (BaseAgent.execute of       *)
(* src/src/agents/base_agent.py: a success with the output, or an error    *)
(* with output None).                                                      *)
(***************************************************************************)
Result(agent, status, output) ==
  [output |-> output, agent |-> agent, status |-> status]

\* output.get("decision", default) of a dictionary
DecisionOf(d, default) ==
  IF "decision" \in DOMAIN d THEN d.decision ELSE default

\* the entry a result leaves in execution_log: its agent, its status and the
\* decision of its output (the whole output is the value the same node stores
\* under the agent's output key)
LogEntry(r) ==
  [agent |-> r.agent, status |-> r.status,
   decision |-> DecisionOf(r.output, "none")]

\* state.get("execution_log", []) + [result]
Logged_replace(log, r) == <<LogEntry(r)>>
Logged(log, r) == Append(log, LogEntry(r))

\* decision == DECISION_REJECT
Rejected_refine(decision) == decision = DECISION_REFINE
Rejected(decision) == decision = DECISION_REJECT

\* result["output"].get("clarifying_questions", [])
QuestionsOf_empty(output) == << >>
QuestionsOf(output) == output.clarifying_questions

\* the stage's _execute reads a dictionary out of its input with .get(); on
\* None that raises inside _execute, which execute turns into an error
InputsUsable(agent, s) ==
  CASE agent = "validator" -> TRUE
    [] agent = "strategist" -> ~IsNone(Get(s.validator_output, EmptyDict))
    [] agent = "writer" -> ~IsNone(Get(s.strategy, EmptyDict))
    [] agent = "visual" -> ~IsNone(Get(s.writer_output, EmptyDict))
    [] OTHER -> ~IsNone(Get(s.writer_output, EmptyDict))

OutputsOf(agent) ==
  CASE agent = "validator" -> ValidatorOutputs
    [] agent = "strategist" -> StrategistOutputs
    [] agent = "writer" -> WriterOutputs
    [] agent = "visual" -> VisualOutputs
    [] OTHER -> OptimizerOutputs

ExecuteResults(agent, s) ==
  {Result(agent, "error", NoneV)} \cup
  (IF InputsUsable(agent, s)
     THEN {Result(agent, "success", o) : o \in OutputsOf(agent)}
     ELSE {})

(***************************************************************************)
(* The orchestrator: src/src/orchestration/graph.py                        *)
(***************************************************************************)
NoState ==
  [status |-> "absent", revision_count |-> 0, max_revisions |-> 0,
   execution_log |-> << >>, validator_output |-> AbsentV,
   strategy |-> AbsentV, clarifying_questions |-> AbsentV,
   format |-> "absent", user_answers |-> "absent",
   writer_output |-> AbsentV, visual_specs |-> AbsentV,
   optimizer_output |-> AbsentV, final_post |-> AbsentV,
   current_agent |-> "absent"]

\* initial_state of run_generation and run_generation_with_tracking
InitialState ==
  [NoState EXCEPT !.status = "processing", !.revision_count = 0,
                  !.max_revisions = DefaultMaxRevisions,
                  !.execution_log = << >>]

NoSnap == [calls |-> [a \in Agents |-> 0], revision_count |-> 0, log_len |-> 0,
           status |-> "absent", events_len |-> 0, state |-> NoState,
           tracked_states |-> FALSE]

Count(agent) == [calls EXCEPT ![agent] = @ + 1]

route_after_writer_skip(s) == "optimize"
route_after_writer(s) ==
  IF s.format = FORMAT_CAROUSEL THEN "visual" ELSE "optimize"

\* the events of one node and whether its agent_completed call raises
NodeEvents(agent, r) ==
  IF SummaryRaises(r.output)
    THEN <<StartedEvent(agent)>>
    ELSE <<StartedEvent(agent), CompletedEvent(agent)>>

\* tracker calls of a node; next is the position after the node returns
NodeTracking(agent, r, next) ==
  IF use_tracker
    THEN /\ Emit(NodeEvents(agent, r))
         /\ tcurrent' = agent
         /\ pc' = IF SummaryRaises(r.output) THEN "raised" ELSE next
    ELSE /\ UNCHANGED <<events, received, tcurrent>>
         /\ pc' = next

run_generation ==
  /\ pc = "idle"
  /\ entry = "none"
  /\ state' = InitialState
  /\ pc' = "validate"
  /\ op' = "start"
  /\ entry' = "run_generation"
  /\ use_tracker' = FALSE
  /\ UNCHANGED <<revision_local, events, callbacks, tcurrent, received, calls,
                 resumes, snap>>
  /\ UNCHANGED agentVars
  /\ UNCHANGED emitVars
  /\ UNCHANGED otherVars
  /\ UNCHANGED routeVars

run_generation_with_tracking ==
  /\ pc = "idle"
  /\ entry = "none"
  /\ state' = InitialState
  /\ pc' = "validate"
  /\ op' = "start"
  /\ entry' = "run_generation_with_tracking"
  /\ use_tracker' = TRUE
  /\ Emit(<<StatusEvent(tcurrent, "Starting idea validation", 5, 0)>>)
  /\ UNCHANGED <<revision_local, callbacks, tcurrent, calls, resumes, snap>>
  /\ UNCHANGED agentVars
  /\ UNCHANGED emitVars
  /\ UNCHANGED otherVars
  \* get_tracker(post_id) puts the tracker in _active_trackers
  /\ active_trackers' = TRUE
  /\ UNCHANGED tracked_states

validate_node ==
  /\ pc = "validate"
  /\ \E r \in ExecuteResults("validator", state) :
       /\ state' = [state EXCEPT !.validator_output = r.output,
                                 !.current_agent = "validator",
                                 !.execution_log = Logged(@, r)]
       /\ NodeTracking("validator", r, "route")
  /\ calls' = Count("validator")
  /\ UNCHANGED <<op, entry, use_tracker, revision_local, callbacks, resumes,
                 snap>>
  /\ UNCHANGED agentVars
  /\ UNCHANGED emitVars
  /\ UNCHANGED otherVars
  /\ UNCHANGED routeVars

\* the conditional edge after validate of the compiled workflow
route_after_validation ==
  /\ pc = "route"
  /\ ~use_tracker
  /\ LET vo == Get(state.validator_output, EmptyDict) IN
       pc' = IF IsNone(vo) THEN "raised"
             ELSE IF Rejected(DecisionOf(vo, DECISION_APPROVE))
                    THEN "returned"
                    ELSE "strategize"
  /\ UNCHANGED <<state, op, entry, use_tracker, revision_local, events,
                 callbacks, tcurrent, received, calls, resumes, snap>>
  /\ UNCHANGED agentVars
  /\ UNCHANGED emitVars
  /\ UNCHANGED otherVars
  /\ UNCHANGED routeVars

\* run_generation_with_tracking, "Check for rejection"
check_rejection ==
  /\ pc = "route"
  /\ use_tracker
  /\ LET vo == Get(state.validator_output, EmptyDict) IN
       IF IsNone(vo)
         THEN /\ pc' = "raised"
              /\ UNCHANGED <<state, events, received, tracked_states>>
         ELSE IF Rejected(DecisionOf(vo, "none"))
           THEN /\ state' = [state EXCEPT !.status = "rejected"]
                /\ Emit(<<StatusEvent(tcurrent, "Idea rejected", 100, 0)>>)
                /\ pc' = "returned"
                /\ tracked_states' = TRUE
           ELSE /\ pc' = "strategize"
                /\ UNCHANGED <<state, events, received, tracked_states>>
  /\ UNCHANGED <<op, entry, use_tracker, revision_local, callbacks, tcurrent,
                 calls, resumes, snap>>
  /\ UNCHANGED agentVars
  /\ UNCHANGED emitVars
  /\ UNCHANGED otherVars
  /\ UNCHANGED active_trackers

strategize_node ==
  /\ pc = "strategize"
  /\ \E r \in ExecuteResults("strategist", state) :
       IF IsNone(r.output)
         THEN \* result["output"].get raises after strategy was assigned
              /\ state' = [state EXCEPT !.strategy = r.output]
              /\ pc' = "raised"
              /\ UNCHANGED tracked_states
              /\ IF use_tracker
                   THEN /\ Emit(<<StartedEvent("strategist")>>)
                        /\ tcurrent' = "strategist"
                   ELSE UNCHANGED <<events, received, tcurrent>>
         ELSE /\ state' = [state EXCEPT
                   !.strategy = r.output,
                   !.clarifying_questions =
                      [kind |-> "list", items |-> QuestionsOf(r.output)],
                   !.format = r.output.recommended_format,
                   !.current_agent = "strategist",
                   !.status = "awaiting_answers",
                   !.execution_log = Logged(@, r)]
              /\ NodeTracking("strategist", r, "returned")
              \* run_generation_task stores the state under the post_id
              /\ tracked_states' = use_tracker
  /\ calls' = Count("strategist")
  /\ UNCHANGED <<op, entry, use_tracker, revision_local, callbacks, resumes,
                 snap>>
  /\ UNCHANGED agentVars
  /\ UNCHANGED emitVars
  /\ UNCHANGED otherVars
  /\ UNCHANGED active_trackers

\* a state the caller built itself (as the tests do) and hands to
\* continue_generation or continue_generation_with_tracking
SuppliedStates ==
  {[InitialState EXCEPT
      !.status = st, !.max_revisions = n,
      !.revision_count = IF over THEN n + 1 ELSE 0,
      !.validator_output = [kind |-> "dict", decision |-> DECISION_APPROVE],
      !.strategy = [kind |-> "dict", recommended_format |-> f,
                    clarifying_questions |-> <<"q1">>],
      !.clarifying_questions = [kind |-> "list", items |-> <<"q1">>],
      !.format = f] :
     st \in {"awaiting_answers", "completed"}, n \in 0..MaxSupplied,
     over \in BOOLEAN, f \in {FORMAT_TEXT, FORMAT_CAROUSEL}}

supply_state ==
  /\ pc = "idle"
  /\ entry = "none"
  /\ \E s \in SuppliedStates : state' = s
  /\ use_tracker' \in BOOLEAN
  /\ pc' = "returned"
  /\ entry' = "supplied"
  /\ UNCHANGED <<op, revision_local, events, callbacks, tcurrent,
                 received, calls, resumes, snap>>
  /\ UNCHANGED agentVars
  /\ UNCHANGED emitVars
  /\ UNCHANGED otherVars
  /\ UNCHANGED routeVars

\* the first node continue_generation runs
ResumeEntry_validate == "validate"
ResumeEntry == "write"

\* continue_generation up to its first write_node call.  tracker is None when
\* the caller uses continue_generation (api/main.py, cli/main.py, posts.py) and
\* the run's tracker when it uses continue_generation_with_tracking
\* (streaming.py, cli/enhanced.py); every caller resumes a run through the
\* entry point of the kind it started the run with.
continue_generation(user_answers, tracker) ==
  /\ \/ pc = "returned"
     \/ pc = "raised" /\ op = "resume"
  /\ resumes < MaxResumes
  /\ state' = [state EXCEPT !.user_answers = user_answers,
                            !.status = "processing"]
  /\ use_tracker' = tracker
  /\ op' = "resume"
  /\ resumes' = resumes + 1
  /\ revision_local' = 0
  /\ snap' = [calls |-> calls, revision_count |-> state.revision_count,
              log_len |-> Len(state.execution_log), status |-> state.status,
              events_len |-> Len(events), state |-> state,
              tracked_states |-> tracked_states]
  /\ IF tracker
       THEN Emit(<<StatusEvent(tcurrent, "Starting content generation", 35, 0)>>)
       ELSE UNCHANGED <<events, received>>
  /\ pc' = ResumeEntry
  /\ UNCHANGED <<entry, callbacks, tcurrent, calls>>
  /\ UNCHANGED agentVars
  /\ UNCHANGED emitVars
  /\ UNCHANGED otherVars
  \* continue_generation_with_tracking: get_tracker(post_id)
  /\ active_trackers' = (active_trackers \/ tracker)
  /\ UNCHANGED tracked_states

write_node ==
  /\ pc = "write"
  /\ \E r \in ExecuteResults("writer", state) :
       /\ state' = [state EXCEPT !.writer_output = r.output,
                                 !.current_agent = "writer",
                                 !.execution_log = Logged(@, r)]
       /\ NodeTracking("writer", r, route_after_writer(state))
  /\ calls' = Count("writer")
  /\ UNCHANGED <<op, entry, use_tracker, revision_local, callbacks, resumes,
                 snap>>
  /\ UNCHANGED agentVars
  /\ UNCHANGED emitVars
  /\ UNCHANGED otherVars
  /\ UNCHANGED routeVars

visual_node ==
  /\ pc = "visual"
  /\ \E r \in ExecuteResults("visual", state) :
       /\ state' = [state EXCEPT !.visual_specs = r.output,
                                 !.current_agent = "visual",
                                 !.execution_log = Logged(@, r)]
       /\ NodeTracking("visual", r, "optimize")
  /\ calls' = Count("visual")
  /\ UNCHANGED <<op, entry, use_tracker, revision_local, callbacks, resumes,
                 snap>>
  /\ UNCHANGED agentVars
  /\ UNCHANGED emitVars
  /\ UNCHANGED otherVars
  /\ UNCHANGED routeVars

optimize_node ==
  /\ pc = "optimize"
  /\ \E r \in ExecuteResults("optimizer", state) :
       /\ state' = [state EXCEPT !.optimizer_output = r.output,
                                 !.current_agent = "optimizer",
                                 !.execution_log = Logged(@, r)]
       /\ NodeTracking("optimizer", r, "loop")
  /\ calls' = Count("optimizer")
  /\ UNCHANGED <<op, entry, use_tracker, revision_local, callbacks, resumes,
                 snap>>
  /\ UNCHANGED agentVars
  /\ UNCHANGED emitVars
  /\ UNCHANGED otherVars
  /\ UNCHANGED routeVars

ShouldRevise_le(s) ==
  /\ DecisionOf(Get(s.optimizer_output, EmptyDict), "none") = "REVISE"
  /\ s.revision_count <= s.max_revisions

ShouldRevise_unbounded(s) ==
  DecisionOf(Get(s.optimizer_output, EmptyDict), "none") = "REVISE"

\* the condition of the while loop of continue_generation
ShouldRevise(s) ==
  /\ DecisionOf(Get(s.optimizer_output, EmptyDict), "none") = "REVISE"
  /\ s.revision_count < s.max_revisions

\* one evaluation of the while condition and, when it holds, the loop body up
\* to its write_node call
revision_loop ==
  /\ pc = "loop"
  /\ IF IsNone(Get(state.optimizer_output, EmptyDict))
       THEN /\ pc' = "raised"
            /\ UNCHANGED <<state, revision_local, events, received>>
       ELSE IF ShouldRevise(state)
         THEN /\ revision_local' = revision_local + 1
              /\ state' = [state EXCEPT !.revision_count = @ + 1]
              /\ IF use_tracker
                   THEN Emit(<<StatusEvent(tcurrent, "Revision", 60,
                                           revision_local + 1)>>)
                   ELSE UNCHANGED <<events, received>>
              /\ pc' = "write"
         ELSE /\ pc' = "finalize"
              /\ UNCHANGED <<state, revision_local, events, received>>
  /\ UNCHANGED <<op, entry, use_tracker, callbacks, tcurrent, calls, resumes,
                 snap>>
  /\ UNCHANGED agentVars
  /\ UNCHANGED emitVars
  /\ UNCHANGED otherVars
  /\ UNCHANGED routeVars

\* hooks[0] if hooks else {"text": "", "score": 0}
BestHook(hooks) == IF hooks # << >> THEN hooks[1] ELSE 0

FinalPost(s) ==
  LET writer_out == Get(s.writer_output, EmptyDict) IN
  [kind |-> "dict",
   format |-> IF s.format = "absent" THEN FORMAT_TEXT ELSE s.format,
   hook |-> BestHook(IF "hooks" \in DOMAIN writer_out
                       THEN writer_out.hooks ELSE << >>),
   visual_specs |-> Get(s.visual_specs, NoneV)]

\* finalize_node, then tracker.complete and the return of continue_generation
finalize_node ==
  /\ pc = "finalize"
  /\ IF \/ IsNone(Get(state.writer_output, EmptyDict))
        \/ IsNone(Get(state.optimizer_output, EmptyDict))
       THEN /\ pc' = "raised"
            /\ UNCHANGED <<state, events, received, tracked_states,
                           active_trackers>>
       ELSE /\ state' = [state EXCEPT !.final_post = FinalPost(state),
                                      !.status = "completed"]
            /\ IF use_tracker
                 THEN Emit(<<CompleteEvent>>)
                 ELSE UNCHANGED <<events, received>>
            /\ pc' = "returned"
            \* continue_generation_task: del _tracked_states[post_id]
            /\ tracked_states' = FALSE
            \* continue_generation_task: remove_tracker(post_id)
            /\ active_trackers' =
                 IF use_tracker /\ entry = "run_generation_with_tracking"
                   THEN FALSE ELSE active_trackers
  /\ UNCHANGED <<op, entry, use_tracker, revision_local, callbacks, tcurrent,
                 calls, resumes, snap>>
  /\ UNCHANGED agentVars
  /\ UNCHANGED emitVars
  /\ UNCHANGED otherVars

(***************************************************************************)
(* BaseAgent.execute: src/backend/src/agents/base_agent.py (retries) and   *)
(* src/src/agents/base_agent.py (one attempt).                             *)
(***************************************************************************)
\* descriptions of the exceptions _execute raises
Errors == {"e1", "e2"}
Variants == {"backend", "src"}

\* "attempt": attempt + 1 of the success result
AttemptNumber_zero(att) == att
AttemptNumber(att) == att + 1

\* for attempt in range(self.max_retries): another iteration follows
HasNextAttempt_extra(att) == att + 1 <= max_retries
HasNextAttempt(att) == att + 1 < max_retries

\* asyncio.sleep(self.retry_delay * (attempt + 1))
Backoff(att) == retry_delay * (att + 1)

\* except Exception as e: the handler catches what _execute raises
Caught_some(e) == e = "e1"
Caught(e) == e \in Errors

SuccessResult(agent, output, att) ==
  [output |-> output, agent |-> agent, status |-> "success",
   attempt |-> AttemptNumber(att)]

ErrorResult(agent, err) ==
  [output |-> NoneV, agent |-> agent, status |-> "error", error |-> err,
   attempts |-> max_retries]

\* a caller calls agent.execute(input_data)
execute_call(agent, variant) ==
  /\ a_pc \in {"off", "returned"}
  /\ a_calls < MaxExecCalls
  /\ a_pc' = "try"
  /\ a_variant' = variant
  /\ a_agent' = agent
  /\ attempt' = 0
  /\ last_error' = "None"
  /\ a_errors' = << >>
  /\ a_invocations' = 0
  /\ a_sleeps' = << >>
  /\ a_calls' = a_calls + 1
  /\ UNCHANGED <<a_results, a_raised>>
  /\ UNCHANGED orchVars
  /\ UNCHANGED emitVars
  /\ UNCHANGED otherVars
  /\ UNCHANGED routeVars

\* one iteration of the retry loop of the backend execute; the iteration
\* that ends the loop also returns the result
execute ==
  /\ a_pc = "try"
  /\ a_variant = "backend"
  /\ a_invocations' = a_invocations + 1
  /\ \/ \E o \in OutputsOf(a_agent) :
          /\ a_results' = Append(a_results, SuccessResult(a_agent, o, attempt))
          /\ a_pc' = "returned"
          /\ UNCHANGED <<attempt, last_error, a_errors, a_sleeps, a_raised>>
     \/ \E e \in Errors :
          /\ a_errors' = Append(a_errors, e)
          /\ IF ~Caught(e)
               THEN /\ a_raised' = a_raised + 1
                    /\ a_pc' = "returned"
                    /\ UNCHANGED <<attempt, last_error, a_sleeps, a_results>>
               ELSE /\ last_error' = e
                    /\ UNCHANGED a_raised
                    /\ IF HasNextAttempt(attempt)
                         THEN /\ a_sleeps' = Append(a_sleeps, Backoff(attempt))
                              /\ attempt' = attempt + 1
                              /\ a_pc' = "try"
                              /\ UNCHANGED a_results
                         ELSE /\ a_results' =
                                   Append(a_results, ErrorResult(a_agent, e))
                              /\ a_pc' = "returned"
                              /\ UNCHANGED <<attempt, a_sleeps>>
  /\ UNCHANGED <<a_variant, a_agent, a_calls>>
  /\ UNCHANGED orchVars
  /\ UNCHANGED emitVars
  /\ UNCHANGED otherVars
  /\ UNCHANGED routeVars

\* execute of src/src/agents/base_agent.py: one attempt, no attempt fields
execute_single ==
  /\ a_pc = "try"
  /\ a_variant = "src"
  /\ a_invocations' = a_invocations + 1
  /\ \/ \E o \in OutputsOf(a_agent) :
          /\ a_results' = Append(a_results, Result(a_agent, "success", o))
          /\ UNCHANGED <<a_errors, a_raised>>
     \/ \E e \in Errors :
          /\ a_errors' = Append(a_errors, e)
          /\ IF ~Caught(e)
               THEN /\ a_raised' = a_raised + 1
                    /\ UNCHANGED a_results
               ELSE /\ a_results' =
                         Append(a_results,
                                [output |-> NoneV, agent |-> a_agent,
                                 status |-> "error", error |-> e])
                    /\ UNCHANGED a_raised
  /\ a_pc' = "returned"
  /\ UNCHANGED <<a_variant, a_agent, attempt, last_error, a_sleeps, a_calls>>
  /\ UNCHANGED orchVars
  /\ UNCHANGED emitVars
  /\ UNCHANGED otherVars
  /\ UNCHANGED routeVars

(***************************************************************************)
(* ExecutionTracker._emit step by step, with several tasks calling it on   *)
(* one tracker and callbacks registered while it runs.  A callback is an   *)
(* awaited coroutine: other tasks run between its call and its return.     *)
(***************************************************************************)
Subscribers == 1..MaxSubscribers
Tasks == 1..MaxTasks
\* what a faulty callback raises
CallbackErrors == {"CallbackError"}

orchRest == <<state, pc, op, entry, use_tracker, revision_local, tcurrent,
              calls, resumes, snap, tracked_states, active_trackers>>

\* async with self._lock: the caller has to wait when the lock is taken or
\* other tasks already wait for it
MustWait_never == FALSE
MustWait == e_lock # 0 \/ e_waiters # << >>

\* except Exception as e, around await callback(event)
CallbackCaught_none(e) == FALSE
CallbackCaught(e) == e \in CallbackErrors

\* callback(event) is called
Invoke(c, ev) == received' = [received EXCEPT ![c] = Append(@, ev)]

\* the lock is acquired: self.events.append(event), then the for loop begins
BeginEmit(t, ev) ==
  /\ events' = Append(events, ev)
  /\ IF callbacks = << >>
       THEN /\ e_lock' = 0
            /\ e_pc' = [e_pc EXCEPT ![t] = "idle"]
            /\ UNCHANGED <<e_idx, received>>
       ELSE /\ e_lock' = t
            /\ e_pc' = [e_pc EXCEPT ![t] = "in_callback"]
            /\ e_idx' = [e_idx EXCEPT ![t] = 1]
            /\ Invoke(callbacks[1], ev)

\* a task calls _emit(event)
emit_call(t) ==
  /\ e_pc[t] = "idle"
  /\ e_emitted < MaxEmits
  /\ e_emitted' = e_emitted + 1
  /\ LET ev == StatusEvent("none", "update", 0, e_emitted + 1) IN
       /\ e_event' = [e_event EXCEPT ![t] = ev]
       /\ IF MustWait
            THEN /\ e_waiters' = Append(e_waiters, t)
                 /\ e_pc' = [e_pc EXCEPT ![t] = "waiting"]
                 /\ UNCHANGED <<e_lock, e_idx, events, received>>
            ELSE /\ BeginEmit(t, ev)
                 /\ UNCHANGED e_waiters
  /\ UNCHANGED <<callbacks, e_reg, faulty>>
  /\ UNCHANGED orchRest
  /\ UNCHANGED otherVars
  /\ UNCHANGED agentVars

\* the first waiter gets the released lock
lock_acquired(t) ==
  /\ e_pc[t] = "waiting"
  /\ e_lock = 0
  /\ e_waiters # << >>
  /\ Head(e_waiters) = t
  /\ e_waiters' = Tail(e_waiters)
  /\ BeginEmit(t, e_event[t])
  /\ UNCHANGED <<callbacks, e_event, e_emitted, e_reg, faulty>>
  /\ UNCHANGED orchRest
  /\ UNCHANGED otherVars
  /\ UNCHANGED agentVars

\* the awaited callback returns or raises; the loop goes on to the next
\* callback of self.callbacks as the list is now, or _emit leaves the lock
callback_return(t) ==
  /\ e_pc[t] = "in_callback"
  /\ LET c == callbacks[e_idx[t]]
         raised == c \in faulty
     IN IF raised /\ \E e \in CallbackErrors : ~CallbackCaught(e)
          THEN /\ e_pc' = [e_pc EXCEPT ![t] = "raised"]
               /\ e_lock' = 0
               /\ UNCHANGED <<e_idx, received>>
          ELSE IF e_idx[t] < Len(callbacks)
            THEN /\ e_idx' = [e_idx EXCEPT ![t] = @ + 1]
                 /\ Invoke(callbacks[e_idx[t] + 1], e_event[t])
                 /\ UNCHANGED <<e_pc, e_lock>>
            ELSE /\ e_pc' = [e_pc EXCEPT ![t] = "idle"]
                 /\ e_lock' = 0
                 /\ UNCHANGED <<e_idx, received>>
  /\ UNCHANGED <<events, callbacks, e_waiters, e_event, e_emitted, e_reg,
                 faulty>>
  /\ UNCHANGED orchRest
  /\ UNCHANGED otherVars
  /\ UNCHANGED agentVars

\* number of events whose _emit call has not returned yet
InProgress == IF e_lock # 0 THEN 1 ELSE 0

\* on_event, called by any task at any time; raises tells whether the
\* callback registered is one that raises when called
subscribe(c, raises) ==
  /\ c \in Subscribers
  /\ c = Len(callbacks) + 1
  /\ callbacks' = Append(callbacks, c)
  /\ faulty' = IF raises THEN faulty \cup {c} ELSE faulty
  /\ e_reg' = [e_reg EXCEPT ![c] = Len(events) - InProgress]
  /\ UNCHANGED <<events, received, e_lock, e_waiters, e_pc, e_idx, e_event,
                 e_emitted>>
  /\ UNCHANGED orchRest
  /\ UNCHANGED otherVars
  /\ UNCHANGED agentVars

\* the tracker of Spec and SpecAgent is not used step by step
EmitOff ==
  /\ e_lock = 0
  /\ e_waiters = << >>
  /\ e_pc = [t \in Tasks |-> "off"]
  /\ e_idx = [t \in Tasks |-> 0]
  /\ e_event = [t \in Tasks |-> AbsentV]
  /\ e_emitted = 0
  /\ e_reg = [c \in Subscribers |-> 0]
  /\ faulty = {}

(***************************************************************************)
(* Several runs served with tracking at the same time: each request has    *)
(* its own post_id, its own initial_state and the tracker get_tracker      *)
(* returns for its post_id.  The detail of an event is the post_id of the  *)
(* run that emitted it.                                                    *)
(***************************************************************************)
PostIds == 1..MaxRuns
RunSubscribers == 1..MaxRunSubscribers

NoTracker == [exists |-> FALSE, events |-> << >>, callbacks |-> << >>]

\* the key of _active_trackers that get_tracker(post_id) looks up and fills
TrackerKey_shared(post_id) == 1
TrackerKey(post_id) == post_id

\* get_tracker(post_id): the registry after the call
GetTracker(post_id) ==
  IF r_trackers[TrackerKey(post_id)].exists THEN r_trackers
  ELSE [r_trackers EXCEPT ![TrackerKey(post_id)] =
          [exists |-> TRUE, events |-> << >>, callbacks |-> << >>]]

\* _emit of the tracker of a run, for events emitted one after another
RunEmit(post_id, evs) ==
  LET k == TrackerKey(post_id)
      reg == GetTracker(post_id)
  IN /\ r_trackers' = [reg EXCEPT ![k].events = @ \o evs]
     /\ r_received' =
          [c \in RunSubscribers |->
             IF \E i \in DOMAIN reg[k].callbacks : reg[k].callbacks[i] = c
               THEN r_received[c] \o evs ELSE r_received[c]]

\* generate_post_with_stream: get_tracker(post_id), tracker.on_event
r_subscribe(post_id, c) ==
  /\ r_subs[c] = 0
  /\ r_pc[post_id] = "idle"
  /\ r_subs' = [r_subs EXCEPT ![c] = post_id]
  /\ r_trackers' = [GetTracker(post_id) EXCEPT
                      ![TrackerKey(post_id)].callbacks = Append(@, c)]
  /\ UNCHANGED <<r_pc, r_states, r_received>>
  /\ UNCHANGED coreVars
  /\ UNCHANGED decisionVars
  /\ UNCHANGED streamVars
  /\ UNCHANGED answersVars

\* run_generation_with_tracking up to its validate_node call
r_start(post_id) ==
  /\ r_pc[post_id] = "idle"
  /\ r_pc' = [r_pc EXCEPT ![post_id] = "validate"]
  /\ r_states' = [r_states EXCEPT ![post_id] = InitialState]
  /\ RunEmit(post_id, <<StatusEvent("none", "Starting idea validation", 5,
                                     post_id)>>)
  /\ UNCHANGED r_subs
  /\ UNCHANGED coreVars
  /\ UNCHANGED decisionVars
  /\ UNCHANGED streamVars
  /\ UNCHANGED answersVars

\* validate_node with a success result, then the check for rejection
r_validate(post_id) ==
  /\ r_pc[post_id] = "validate"
  /\ \E o \in ValidatorOutputs :
       LET r == Result("validator", "success", o)
           s1 == [r_states[post_id] EXCEPT
                    !.validator_output = o, !.current_agent = "validator",
                    !.execution_log = Logged(@, r)]
           started == AgentEvent("agent_start", "validator", "analyzing",
                                 AGENT_PROGRESS["validator"] - 10, post_id)
           completed == AgentEvent("agent_complete", "validator", "completed",
                                   AGENT_PROGRESS["validator"], post_id)
       IN IF Rejected(DecisionOf(o, "none"))
            THEN /\ r_states' = [r_states EXCEPT
                                   ![post_id] = [s1 EXCEPT !.status = "rejected"]]
                 /\ RunEmit(post_id,
                            <<started, completed,
                              StatusEvent("validator", "Idea rejected", 100,
                                          post_id)>>)
                 /\ r_pc' = [r_pc EXCEPT ![post_id] = "returned"]
            ELSE /\ r_states' = [r_states EXCEPT ![post_id] = s1]
                 /\ RunEmit(post_id, <<started, completed>>)
                 /\ r_pc' = [r_pc EXCEPT ![post_id] = "strategize"]
  /\ UNCHANGED r_subs
  /\ UNCHANGED coreVars
  /\ UNCHANGED decisionVars
  /\ UNCHANGED streamVars
  /\ UNCHANGED answersVars

\* strategize_node with a success result, and the return of start
r_strategize(post_id) ==
  /\ r_pc[post_id] = "strategize"
  /\ \E o \in StrategistOutputs :
       LET r == Result("strategist", "success", o) IN
         /\ r_states' = [r_states EXCEPT ![post_id] =
              [@ EXCEPT !.strategy = o,
                        !.clarifying_questions =
                           [kind |-> "list", items |-> QuestionsOf(o)],
                        !.format = o.recommended_format,
                        !.current_agent = "strategist",
                        !.status = "awaiting_answers",
                        !.execution_log = Logged(@, r)]]
         /\ RunEmit(post_id,
                    <<AgentEvent("agent_start", "strategist", "analyzing",
                                 AGENT_PROGRESS["strategist"] - 10, post_id),
                      AgentEvent("agent_complete", "strategist", "completed",
                                 AGENT_PROGRESS["strategist"], post_id)>>)
  /\ r_pc' = [r_pc EXCEPT ![post_id] = "returned"]
  /\ UNCHANGED r_subs
  /\ UNCHANGED coreVars
  /\ UNCHANGED decisionVars
  /\ UNCHANGED streamVars
  /\ UNCHANGED answersVars

\* no run of SpecRuns is in progress
RunsOff ==
  /\ r_pc = [p \in PostIds |-> "off"]
  /\ r_states = [p \in PostIds |-> NoState]
  /\ r_trackers = [p \in PostIds |-> NoTracker]
  /\ r_subs = [c \in RunSubscribers |-> 0]
  /\ r_received = [c \in RunSubscribers |-> << >>]

(***************************************************************************)
(* The revise decision: route_after_optimizer of the workflow graph and    *)
(* the while condition of continue_generation, applied to a state.         *)
(***************************************************************************)
\* route_after_optimizer: the node it returns and the state object afterwards
route_after_optimizer(s) ==
  LET decision == DecisionOf(Get(s.optimizer_output, EmptyDict), "APPROVE")
      revision == s.revision_count
      max_rev == s.max_revisions
  IN IF decision = "REVISE" /\ revision < max_rev
       THEN [next |-> "write",
             state |-> [s EXCEPT !.revision_count = revision + 1]]
       ELSE [next |-> "finalize", state |-> s]

\* the states the decision is evaluated on
RoutedStates ==
  {[InitialState EXCEPT !.optimizer_output = o, !.revision_count = rc,
                        !.max_revisions = max] :
     o \in OptimizerOutputs \cup {EmptyDict}, rc \in 0..MaxRouted,
     max \in 0..MaxRouted}

\* the workflow evaluates the conditional edge after optimize
d_route ==
  /\ d_pc = "input"
  /\ d_pc' = "routed"
  /\ d_result' = route_after_optimizer(d_state).next
  /\ d_state' = route_after_optimizer(d_state).state
  /\ UNCHANGED d_input
  /\ UNCHANGED runVars
  /\ UNCHANGED streamVars
  /\ UNCHANGED answersVars
  /\ UNCHANGED coreVars

\* continue_generation evaluates its while condition
d_evaluate ==
  /\ d_pc = "input"
  /\ d_pc' = "evaluated"
  /\ d_result' = IF ShouldRevise(d_state) THEN "write" ELSE "finalize"
  /\ UNCHANGED <<d_input, d_state>>
  /\ UNCHANGED runVars
  /\ UNCHANGED streamVars
  /\ UNCHANGED answersVars
  /\ UNCHANGED coreVars

DecisionOff ==
  /\ d_pc = "off"
  /\ d_input = NoState
  /\ d_state = NoState
  /\ d_result = "none"

(***************************************************************************)
(* The streaming routes for one post: request 0 is generate/stream, the    *)
(* requests 1..MaxSubmits are answers/stream for the post_id it returned.  *)
(* Each accepted request registers its event_callback on the post's        *)
(* tracker, starts a background task and streams its own queue.            *)
(***************************************************************************)
Requests == 0..MaxSubmits
Submits == 1..MaxSubmits

\* an AgentEvent as the stream sees it; by tells a tracker event from one
\* the route puts on the queue itself
StreamEvent(type, progress, by) ==
  [type |-> type, progress |-> progress, by |-> by]
\* the None sentinel
Sentinel == StreamEvent("None", 0, "route")
\* the events one stage emits through the tracker
StageEvents(completes) ==
  IF completes
    THEN <<StreamEvent("agent_start", 0, "tracker"),
           StreamEvent("agent_complete", 0, "tracker")>>
    ELSE <<StreamEvent("agent_start", 0, "tracker")>>
\* tracker.status_update
StreamStatus(progress) == StreamEvent("status_update", progress, "tracker")
\* tracker.complete
TrackerComplete == StreamEvent("complete", 100, "tracker")
\* the complete events the two tasks put on their own queue
RejectedEvent == StreamEvent("complete", 100, "route")
AwaitingEvent == StreamEvent("complete", 30, "route")
FinalEvent == StreamEvent("complete", 100, "final")
ErrorEvent == StreamEvent("agent_error", 0, "route")

\* a new ExecutionTracker: the requests whose event_callback it holds
NewTracker == [callbacks |-> {}]

\* events_queue.put of the events evs on the queue of request r
Put(queue, r, evs) == [queue EXCEPT ![r] = @ \o evs]

\* ExecutionTracker._emit of the events evs, in order, on tracker tr: each is
\* handed to every registered event_callback, which puts it on its queue and
\* passes it to save_event
StreamEmit(tr, evs) ==
  /\ s_queue' = [r \in Requests |->
                   IF r \in s_trackers[tr].callbacks
                     THEN s_queue[r] \o evs ELSE s_queue[r]]
  /\ s_saves' = s_saves \o
                  [i \in 1..Len(evs) |-> Cardinality(s_trackers[tr].callbacks)]

\* generate_post_with_stream: the handler up to returning the response
generate_post_with_stream ==
  /\ s_pc[0] = "none"
  /\ s_trackers' = Append(s_trackers, [NewTracker EXCEPT !.callbacks = {0}])
  /\ s_active' = Len(s_trackers) + 1
  /\ s_pc' = [s_pc EXCEPT ![0] = "created"]
  /\ UNCHANGED <<s_queue, s_read, s_closed, s_ref, s_tracked, s_saves,
                 s_answers>>
  /\ UNCHANGED <<runVars, decisionVars, answersVars>>
  /\ UNCHANGED coreVars

\* run_generation_task: post_repo.create and create_history
g_create(ok) ==
  /\ s_pc[0] = "created"
  /\ s_pc' = [s_pc EXCEPT ![0] = IF ok THEN "run" ELSE "handler"]
  /\ UNCHANGED <<s_queue, s_read, s_closed, s_trackers, s_active, s_ref,
                 s_tracked, s_saves, s_answers>>
  /\ UNCHANGED <<runVars, decisionVars, answersVars>>
  /\ UNCHANGED coreVars

\* run_generation_with_tracking up to the rejection check; a rejected state
\* is returned and stored in _tracked_states
g_validate(out) ==
  /\ s_pc[0] = "run"
  /\ s_ref' = [s_ref EXCEPT ![0] = s_active]
  /\ StreamEmit(s_active,
       <<StreamStatus(5)>> \o StageEvents(out # "raise") \o
       (IF out = "reject" THEN <<StreamStatus(100)>> ELSE << >>))
  /\ s_tracked' = (out = "reject")
  /\ s_pc' = [s_pc EXCEPT ![0] = CASE out = "approve" -> "strategize"
                                   [] out = "reject" -> "rejected"
                                   [] OTHER -> "handler"]
  /\ UNCHANGED <<s_read, s_closed, s_trackers, s_active, s_answers>>
  /\ UNCHANGED <<runVars, decisionVars, answersVars>>
  /\ UNCHANGED coreVars

\* strategize_node, the return and the store in _tracked_states
g_strategize(out) ==
  /\ s_pc[0] = "strategize"
  /\ StreamEmit(s_ref[0], StageEvents(out # "raise"))
  /\ s_tracked' = (out # "raise")
  /\ s_pc' = [s_pc EXCEPT ![0] = IF out # "raise" THEN "awaiting"
                                                  ELSE "handler"]
  /\ UNCHANGED <<s_read, s_closed, s_trackers, s_active, s_ref, s_answers>>
  /\ UNCHANGED <<runVars, decisionVars, answersVars>>
  /\ UNCHANGED coreVars

\* the end of run_generation_task: update_rejected or update_phase1_complete,
\* then the complete event of that branch
g_finish(ok) ==
  /\ s_pc[0] \in {"rejected", "awaiting"}
  /\ s_queue' = IF ok
                  THEN Put(s_queue, 0, IF s_pc[0] = "rejected"
                                         THEN <<RejectedEvent>>
                                         ELSE <<AwaitingEvent>>)
                  ELSE s_queue
  /\ s_pc' = [s_pc EXCEPT ![0] = IF ok THEN "done" ELSE "handler"]
  /\ UNCHANGED <<s_read, s_closed, s_trackers, s_active, s_ref, s_tracked,
                 s_saves, s_answers>>
  /\ UNCHANGED <<runVars, decisionVars, answersVars>>
  /\ UNCHANGED coreVars

\* submit_answers_with_stream: the handler up to returning the response;
\* the requests are numbered in the order they arrive
submit_answers_with_stream(r) ==
  /\ s_pc[r] = "none"
  /\ s_pc[r - 1] # "none"
  /\ IF ~s_tracked
       THEN /\ s_pc' = [s_pc EXCEPT ![r] = "404"]
            /\ UNCHANGED s_trackers
       ELSE /\ s_pc' = [s_pc EXCEPT ![r] = "created"]
            /\ s_trackers' = [s_trackers EXCEPT ![s_active].callbacks =
                                                   @ \cup {r}]
  /\ UNCHANGED <<s_queue, s_read, s_closed, s_active, s_ref, s_tracked,
                 s_saves, s_answers>>
  /\ UNCHANGED <<runVars, decisionVars, answersVars>>
  /\ UNCHANGED coreVars

\* the tracker get_tracker returns: the registered one, or a new one
StreamTracker == IF s_active = 0 THEN Len(s_trackers) + 1 ELSE s_active

\* continue_generation_task up to the first stage: update_answers_submitted,
\* get_tracker, state["user_answers"] = user_answers, status_update 35
c_start(r, ok) ==
  /\ s_pc[r] = "created"
  /\ IF ok
       THEN /\ s_ref' = [s_ref EXCEPT ![r] = StreamTracker]
            /\ s_active' = StreamTracker
            /\ s_answers' = s_answers + 1
            /\ IF s_active = 0
                 THEN /\ s_trackers' = Append(s_trackers, NewTracker)
                      /\ s_saves' = Append(s_saves, 0)
                      /\ UNCHANGED s_queue
                 ELSE /\ StreamEmit(s_active, <<StreamStatus(35)>>)
                      /\ UNCHANGED s_trackers
            /\ s_pc' = [s_pc EXCEPT ![r] = "stages"]
       ELSE /\ s_pc' = [s_pc EXCEPT ![r] = "handler"]
            /\ UNCHANGED <<s_ref, s_active, s_answers, s_trackers, s_saves,
                           s_queue>>
  /\ UNCHANGED <<s_read, s_closed, s_tracked>>
  /\ UNCHANGED <<runVars, decisionVars, answersVars>>
  /\ UNCHANGED coreVars

\* the stages of continue_generation on a text post with an approving
\* optimizer: write_node, optimize_node, finalize_node, tracker.complete;
\* out names the stage whose agent_completed raises, if any
c_stages(r, out) ==
  /\ s_pc[r] = "stages"
  /\ StreamEmit(s_ref[r],
       CASE out = "write" -> StageEvents(FALSE)
         [] out = "optimize" -> StageEvents(TRUE) \o StageEvents(FALSE)
         [] OTHER -> StageEvents(TRUE) \o StageEvents(TRUE) \o
                     <<TrackerComplete>>)
  /\ s_pc' = [s_pc EXCEPT ![r] = IF out = "ok" THEN "save" ELSE "handler"]
  /\ UNCHANGED <<s_read, s_closed, s_trackers, s_active, s_ref, s_tracked,
                 s_answers>>
  /\ UNCHANGED <<runVars, decisionVars, answersVars>>
  /\ UNCHANGED coreVars

\* the end of continue_generation_task: post_repo.update and
\* update_phase2_complete, then del _tracked_states[post_id] (KeyError when
\* it is gone), remove_tracker and the final complete event
c_finish(r, ok) ==
  /\ s_pc[r] = "save"
  /\ IF ok /\ s_tracked
       THEN /\ s_tracked' = FALSE
            /\ s_active' = 0
            /\ s_queue' = Put(s_queue, r, <<FinalEvent>>)
            /\ s_pc' = [s_pc EXCEPT ![r] = "done"]
       ELSE /\ s_pc' = [s_pc EXCEPT ![r] = "handler"]
            /\ UNCHANGED <<s_tracked, s_active, s_queue>>
  /\ UNCHANGED <<s_read, s_closed, s_trackers, s_ref, s_saves, s_answers>>
  /\ UNCHANGED <<runVars, decisionVars, answersVars>>
  /\ UNCHANGED coreVars

\* the except branch of either task: update_failed, then the agent_error
\* event and the None sentinel; update_failed raising ends the task there
task_failed(r, ok) ==
  /\ s_pc[r] = "handler"
  /\ s_queue' = IF ok THEN Put(s_queue, r, <<ErrorEvent, Sentinel>>)
                      ELSE s_queue
  /\ s_pc' = [s_pc EXCEPT ![r] = IF ok THEN "failed" ELSE "dead"]
  /\ UNCHANGED <<s_read, s_closed, s_trackers, s_active, s_ref, s_tracked,
                 s_saves, s_answers>>
  /\ UNCHANGED <<runVars, decisionVars, answersVars>>
  /\ UNCHANGED coreVars

\* whether _stream_events breaks after taking the queue item e
Closes(e) == e.type \in {"None", "complete"}

\* the position of the first item of the queue q on which _stream_events
\* breaks, 0 if there is none yet
FirstClose(q) ==
  IF \E i \in 1..Len(q) : Closes(q[i])
    THEN CHOOSE i \in 1..Len(q) :
           Closes(q[i]) /\ \A j \in 1..(i - 1) : ~Closes(q[j])
    ELSE 0

\* _stream_events on the queue of request r, read by the client up to the
\* break that ends the stream
stream_events(r) ==
  /\ s_pc[r] \notin {"none", "404"}
  /\ ~s_closed[r]
  /\ FirstClose(s_queue[r]) > 0
  /\ s_read' = [s_read EXCEPT ![r] = FirstClose(s_queue[r])]
  /\ s_closed' = [s_closed EXCEPT ![r] = TRUE]
  /\ UNCHANGED <<s_pc, s_queue, s_trackers, s_active, s_ref, s_tracked,
                 s_saves, s_answers>>
  /\ UNCHANGED <<runVars, decisionVars, answersVars>>
  /\ UNCHANGED coreVars

\* what the client of request r has received
Delivered(r) ==
  SelectSeq(SubSeq(s_queue[r], 1, s_read[r]), LAMBDA e : e.type # "None")

StreamOff ==
  /\ s_pc = [r \in Requests |-> "off"]
  /\ s_queue = [r \in Requests |-> << >>]
  /\ s_read = [r \in Requests |-> 0]
  /\ s_closed = [r \in Requests |-> FALSE]
  /\ s_trackers = << >>
  /\ s_active = 0
  /\ s_ref = [r \in Requests |-> 0]
  /\ s_tracked = FALSE
  /\ s_saves = << >>
  /\ s_answers = 0

(***************************************************************************)
(* The route POST {post_id}/answers: submit_answers looks the stored state *)
(* up, awaits continue_generation on it without a tracker and deletes the  *)
(* entry afterwards.  Several requests for one post run as concurrent      *)
(* handlers over the one stored state object.                              *)
(***************************************************************************)
Answerers == 1..MaxAnswerers

\* submit_answers up to the first await of continue_generation: the lookup,
\* state["user_answers"] = user_answers and the call of the writer
submit_answers(r) ==
  /\ p_pc[r] = "none"
  /\ r > 1 => p_pc[r - 1] # "none"
  /\ IF p_stored
       THEN /\ p_answers' = p_answers + 1
            /\ p_pc' = [p_pc EXCEPT ![r] = "write"]
       ELSE /\ p_pc' = [p_pc EXCEPT ![r] = "404"]
            /\ UNCHANGED p_answers
  /\ UNCHANGED <<p_stored, p_writer, p_decision, p_revision>>
  /\ UNCHANGED <<runVars, decisionVars, streamVars>>
  /\ UNCHANGED coreVars

\* the rest of write_node, up to the call of the optimizer
p_write(r, out) ==
  /\ p_pc[r] = "write"
  /\ p_writer' = out
  /\ p_pc' = [p_pc EXCEPT ![r] = "optimize"]
  /\ UNCHANGED <<p_stored, p_answers, p_decision, p_revision>>
  /\ UNCHANGED <<runVars, decisionVars, streamVars>>
  /\ UNCHANGED coreVars

\* the rest of optimize_node and what follows without an await: the while
\* condition, then either the next write_node call or finalize_node,
\* del _generation_states[post_id] and the call of post_repo.create
p_optimize(r, out) ==
  /\ p_pc[r] = "optimize"
  /\ p_decision' = out
  /\ IF out = "error"
       THEN /\ p_pc' = [p_pc EXCEPT ![r] = "500"]
            /\ UNCHANGED <<p_revision, p_stored>>
       ELSE IF out = "REVISE" /\ p_revision < DefaultMaxRevisions
         THEN /\ p_revision' = p_revision + 1
              /\ p_pc' = [p_pc EXCEPT ![r] = "write"]
              /\ UNCHANGED p_stored
         ELSE IF p_writer = "error" \/ ~p_stored
           THEN /\ p_pc' = [p_pc EXCEPT ![r] = "500"]
                /\ UNCHANGED <<p_revision, p_stored>>
           ELSE /\ p_stored' = FALSE
                /\ p_pc' = [p_pc EXCEPT ![r] = "save"]
                /\ UNCHANGED p_revision
  /\ UNCHANGED <<p_answers, p_writer>>
  /\ UNCHANGED <<runVars, decisionVars, streamVars>>
  /\ UNCHANGED coreVars

\* post_repo.create and the response
p_save(r, ok) ==
  /\ p_pc[r] = "save"
  /\ p_pc' = [p_pc EXCEPT ![r] = IF ok THEN "200" ELSE "500"]
  /\ UNCHANGED <<p_stored, p_answers, p_writer, p_decision, p_revision>>
  /\ UNCHANGED <<runVars, decisionVars, streamVars>>
  /\ UNCHANGED coreVars

\* the requests whose handler entered continue_generation
Resumed == {r \in Answerers : p_pc[r] \notin {"off", "none", "404"}}

AnswersOff ==
  /\ p_pc = [r \in Answerers |-> "off"]
  /\ p_stored = FALSE
  /\ p_answers = 0
  /\ p_writer = "absent"
  /\ p_decision = "absent"
  /\ p_revision = 0

\* no component other than the orchestrator, the agent and _emit is running
OthersOff == RunsOff /\ DecisionOff /\ StreamOff /\ AnswersOff

OrchInit ==
  /\ state = NoState
  /\ pc = "idle"
  /\ op = "none"
  /\ entry = "none"
  /\ use_tracker = FALSE
  /\ revision_local = 0
  /\ events = << >>
  /\ callbacks = << >>
  /\ tcurrent = "none"
  /\ received = [c \in CallbackIds |-> << >>]
  /\ calls = [a \in Agents |-> 0]
  /\ resumes = 0
  /\ snap = NoSnap
  /\ tracked_states = FALSE
  /\ active_trackers = FALSE

AgentIdle ==
  /\ a_pc = "off"
  /\ a_variant = "none"
  /\ a_agent = "none"
  /\ attempt = 0
  /\ last_error = "None"
  /\ a_errors = << >>
  /\ a_invocations = 0
  /\ a_sleeps = << >>
  /\ a_results = << >>
  /\ a_raised = 0
  /\ a_calls = 0

Init == OrchInit /\ AgentIdle /\ EmitOff /\ OthersOff

Next ==
  \/ run_generation
  \/ run_generation_with_tracking
  \/ supply_state
  \/ validate_node
  \/ route_after_validation
  \/ check_rejection
  \/ strategize_node
  \/ \E a \in Answers : continue_generation(a, use_tracker)
  \/ write_node
  \/ visual_node
  \/ optimize_node
  \/ revision_loop
  \/ finalize_node
  \/ \E c \in CallbackIds : OnEvent(c)

Spec == Init /\ [][Next]_vars

(***************************************************************************)
(* Specification of BaseAgent.execute on its own: callers issue up to      *)
(* MaxExecCalls calls, _execute succeeds or raises at each attempt.        *)
(***************************************************************************)
OrchOff ==
  /\ state = NoState
  /\ pc = "off"
  /\ op = "none"
  /\ entry = "none"
  /\ use_tracker = FALSE
  /\ revision_local = 0
  /\ events = << >>
  /\ callbacks = << >>
  /\ tcurrent = "none"
  /\ received = [c \in CallbackIds |-> << >>]
  /\ calls = [a \in Agents |-> 0]
  /\ resumes = 0
  /\ snap = NoSnap
  /\ tracked_states = FALSE
  /\ active_trackers = FALSE

AgentInit == OrchOff /\ AgentIdle /\ EmitOff /\ OthersOff

AgentNext ==
  \/ \E a \in Agents, v \in Variants : execute_call(a, v)
  \/ execute
  \/ execute_single

SpecAgent == AgentInit /\ [][AgentNext]_vars

(***************************************************************************)
(* Specification of ExecutionTracker._emit on its own: up to MaxTasks      *)
(* tasks issue up to MaxEmits _emit calls on a fresh tracker while up to   *)
(* MaxSubscribers callbacks are registered.                                *)
(***************************************************************************)
EmitInit ==
  /\ state = NoState
  /\ pc = "off"
  /\ op = "none"
  /\ entry = "none"
  /\ use_tracker = FALSE
  /\ revision_local = 0
  /\ events = << >>
  /\ callbacks = << >>
  /\ tcurrent = "none"
  /\ received = [c \in Subscribers |-> << >>]
  /\ calls = [a \in Agents |-> 0]
  /\ resumes = 0
  /\ snap = NoSnap
  /\ tracked_states = FALSE
  /\ active_trackers = FALSE
  /\ AgentIdle
  /\ e_lock = 0
  /\ e_waiters = << >>
  /\ e_pc = [t \in Tasks |-> "idle"]
  /\ e_idx = [t \in Tasks |-> 0]
  /\ e_event = [t \in Tasks |-> AbsentV]
  /\ e_emitted = 0
  /\ e_reg = [c \in Subscribers |-> 0]
  /\ faulty = {}
  /\ OthersOff

EmitNext ==
  \/ \E t \in Tasks : emit_call(t)
  \/ \E t \in Tasks : lock_acquired(t)
  \/ \E t \in Tasks : callback_return(t)
  \/ \E c \in Subscribers, raises \in BOOLEAN : subscribe(c, raises)

SpecEmit == EmitInit /\ [][EmitNext]_vars

(***************************************************************************)
(* Specification of MaxRuns runs started with run_generation_with_tracking *)
(* under distinct post_ids, their steps interleaved.                       *)
(***************************************************************************)
RunsInit ==
  /\ OrchOff
  /\ AgentIdle
  /\ EmitOff
  /\ r_pc = [p \in PostIds |-> "idle"]
  /\ r_states = [p \in PostIds |-> NoState]
  /\ r_trackers = [p \in PostIds |-> NoTracker]
  /\ r_subs = [c \in RunSubscribers |-> 0]
  /\ r_received = [c \in RunSubscribers |-> << >>]
  /\ DecisionOff
  /\ StreamOff
  /\ AnswersOff

RunsNext ==
  \/ \E p \in PostIds, c \in RunSubscribers : r_subscribe(p, c)
  \/ \E p \in PostIds : r_start(p)
  \/ \E p \in PostIds : r_validate(p)
  \/ \E p \in PostIds : r_strategize(p)

SpecRuns == RunsInit /\ [][RunsNext]_vars

(***************************************************************************)
(* Specification of the revise decision on every state of RoutedStates.    *)
(***************************************************************************)
DecisionInit ==
  /\ OrchOff
  /\ AgentIdle
  /\ EmitOff
  /\ RunsOff
  /\ StreamOff
  /\ AnswersOff
  /\ d_pc = "input"
  /\ d_input \in RoutedStates
  /\ d_state = d_input
  /\ d_result = "none"

DecisionNext ==
  \/ d_route
  \/ d_evaluate

SpecDecision == DecisionInit /\ [][DecisionNext]_vars

(***************************************************************************)
(* Specification of the streaming routes for one post.                     *)
(***************************************************************************)
\* how the stages of a resume end: all complete, or one of them raises
StageOutcomes == {"ok", "write", "optimize"}

StreamInit ==
  /\ OrchOff
  /\ AgentIdle
  /\ EmitOff
  /\ RunsOff
  /\ DecisionOff
  /\ AnswersOff
  /\ s_pc = [r \in Requests |-> "none"]
  /\ s_queue = [r \in Requests |-> << >>]
  /\ s_read = [r \in Requests |-> 0]
  /\ s_closed = [r \in Requests |-> FALSE]
  /\ s_trackers = << >>
  /\ s_active = 0
  /\ s_ref = [r \in Requests |-> 0]
  /\ s_tracked = FALSE
  /\ s_saves = << >>
  /\ s_answers = 0

StreamNext ==
  \/ generate_post_with_stream
  \/ \E ok \in BOOLEAN : g_create(ok)
  \/ \E out \in {"approve", "reject", "raise"} : g_validate(out)
  \/ \E out \in {"ok", "raise"} : g_strategize(out)
  \/ \E ok \in BOOLEAN : g_finish(ok)
  \/ \E r \in Submits : submit_answers_with_stream(r)
  \/ \E r \in Submits, ok \in BOOLEAN : c_start(r, ok)
  \/ \E r \in Submits, out \in StageOutcomes : c_stages(r, out)
  \/ \E r \in Submits, ok \in BOOLEAN : c_finish(r, ok)
  \/ \E r \in Requests, ok \in BOOLEAN : task_failed(r, ok)
  \/ \E r \in Requests : stream_events(r)

SpecStream == StreamInit /\ [][StreamNext]_vars

(***************************************************************************)
(* Specification of POST {post_id}/answers for a post whose first phase    *)
(* returned awaiting answers, so that generate_post stored its state.      *)
(***************************************************************************)
AnswersInit ==
  /\ OrchOff
  /\ AgentIdle
  /\ EmitOff
  /\ RunsOff
  /\ DecisionOff
  /\ StreamOff
  /\ p_pc = [r \in Answerers |-> "none"]
  /\ p_stored = TRUE
  /\ p_answers = 0
  /\ p_writer = "absent"
  /\ p_decision = "absent"
  /\ p_revision = 0

AnswersNext ==
  \/ \E r \in Answerers : submit_answers(r)
  \/ \E r \in Answerers, out \in {"ok", "error"} : p_write(r, out)
  \/ \E r \in Answerers, out \in {"APPROVE", "REVISE", "error"} :
       p_optimize(r, out)
  \/ \E r \in Answerers, ok \in BOOLEAN : p_save(r, ok)

SpecAnswers == AnswersInit /\ [][AnswersNext]_vars

(***************************************************************************)
(* Properties                                                              *)
(***************************************************************************)
StartEntries == {"run_generation", "run_generation_with_tracking"}

\* execute calls of an agent since the current continue_generation began
ResumeCalls(agent) == calls[agent] - snap.calls[agent]

\* execution_log entries appended since the current continue_generation began
ResumeLog ==
  SubSeq(state.execution_log, snap.log_len + 1, Len(state.execution_log))

\* every optimizer invocation of the current continue_generation returned REVISE
AlwaysRevise ==
  \A i \in DOMAIN ResumeLog :
    ResumeLog[i].agent = "optimizer" => ResumeLog[i].decision = "REVISE"

\* the current continue_generation was aborted by an exception, and the last
\* stage it ran had returned an error result
AbortedByStageError ==
  /\ pc = "raised"
  /\ ResumeLog # << >>
  /\ ResumeLog[Len(ResumeLog)].status = "error"

\* loop iterations left to a continue_generation entered with revision_count rc
RevisionBudget(rc, max) == IF rc < max THEN max - rc ELSE 0

\* C1: revision bound.  In a continue_generation in which every optimizer
\* invocation returns REVISE, the revision loop never runs more iterations
\* than max_revisions allows; finalize is only reached after the loop has run
\* all of them, which for a state entered with revision_count 0 and
\* max_revisions = N is exactly N iterations, the writer and the optimizer
\* invoked N + 1 times each and revision_count = N; the call then returns with
\* status completed.  The call ends otherwise only when a stage returned an
\* error result.
C1_RevisionBound ==
  (op = "resume" /\ AlwaysRevise) =>
    LET N == state.max_revisions
        budget == RevisionBudget(snap.revision_count, N)
    IN /\ revision_local <= budget
       /\ ResumeCalls("writer") <= budget + 1
       /\ ResumeCalls("optimizer") <= budget + 1
       /\ state.revision_count = snap.revision_count + revision_local
       /\ pc \in {"finalize", "returned"} =>
            /\ revision_local = budget
            /\ ResumeCalls("writer") = budget + 1
            /\ ResumeCalls("optimizer") = budget + 1
            /\ snap.revision_count = 0 =>
                 /\ revision_local = N
                 /\ ResumeCalls("writer") = N + 1
                 /\ ResumeCalls("optimizer") = N + 1
                 /\ state.revision_count = N
       /\ pc = "returned" => state.status = "completed"
       /\ pc = "raised" => AbortedByStageError

C1_Witness ==
  /\ op = "resume"
  /\ pc = "returned"
  /\ snap.revision_count = 0
  /\ AlwaysRevise
  /\ state.max_revisions = 3
  /\ ResumeCalls("optimizer") = 4
  /\ state.revision_count = 3

\* C2: a state created by run_generation or run_generation_with_tracking
\* keeps 0 <= revision_count <= max_revisions through every
\* continue_generation call issued on it.
C2_RevisionCountInRange ==
  entry \in StartEntries =>
    /\ 0 <= state.revision_count
    /\ state.revision_count <= state.max_revisions

C2_Witness ==
  /\ entry \in StartEntries
  /\ resumes = 2
  /\ pc = "finalize"
  /\ DecisionOf(Get(state.optimizer_output, EmptyDict), "none") = "REVISE"
  /\ state.revision_count = state.max_revisions

\* the validator of this run returned the decision REJECT
ValidatorRejected ==
  DecisionOf(Get(state.validator_output, EmptyDict), "none") = DECISION_REJECT

\* C3: reject short-circuit.  When the validator returns REJECT, start (either
\* entry point) invokes no strategist, writer, visual or optimizer stage and
\* execution_log holds exactly one entry, the validator's.
C3_RejectShortCircuit ==
  (op = "start" /\ ValidatorRejected) =>
    /\ pc \in {"route", "returned"}
    /\ calls = [a \in Agents |-> IF a = "validator" THEN 1 ELSE 0]
    /\ Len(state.execution_log) = 1
    /\ state.execution_log[1].agent = "validator"

C3_Witness ==
  /\ op = "start"
  /\ pc = "returned"
  /\ entry = "run_generation_with_tracking"
  /\ ValidatorRejected
  /\ Len(state.execution_log) = 1

\* C4: format branch.  In every pass of continue_generation the writer's entry
\* of execution_log is followed by a visual entry and then the optimizer's
\* when format is carousel, and directly by the optimizer's otherwise; no
\* visual stage is invoked for a format other than carousel.
C4_FormatBranch ==
  op = "resume" =>
    LET L == ResumeLog
        carousel == state.format = FORMAT_CAROUSEL
    IN /\ ~carousel => ResumeCalls("visual") = 0
       /\ carousel /\ pc = "optimize" => L[Len(L)].agent = "visual"
       /\ \A i \in DOMAIN L :
            /\ (L[i].agent = "writer" /\ i < Len(L)) =>
                 L[i + 1].agent = IF carousel THEN "visual" ELSE "optimizer"
            /\ L[i].agent = "visual" =>
                 /\ carousel
                 /\ i > 1
                 /\ L[i - 1].agent = "writer"
                 /\ i < Len(L) => L[i + 1].agent = "optimizer"
            /\ L[i].agent = "optimizer" =>
                 /\ i > 1
                 /\ L[i - 1].agent = IF carousel THEN "visual" ELSE "writer"

C4_Witness ==
  /\ op = "resume"
  /\ pc = "returned"
  /\ state.status = "completed"
  /\ state.format = FORMAT_CAROUSEL
  /\ state.revision_count = 1
  /\ ResumeCalls("visual") = 2
  /\ Len(ResumeLog) = 6

Progress(evs) == [i \in DOMAIN evs |-> evs[i].progress_percent]

NonDecreasing(q) == \A i, j \in DOMAIN q : i < j => q[i] <= q[j]

\* C5: in a tracked run (start, then one resume) every subscriber receives
\* non-decreasing progress percentages, and a subscriber of a finished tracked
\* resume has received exactly one event at 100, the last one.
C5_MonotonicProgress ==
  (entry = "run_generation_with_tracking" /\ resumes <= 1
     /\ ~ValidatorRejected) =>
    \A c \in CallbackIds :
      /\ NonDecreasing(Progress(received[c]))
      /\ (op = "resume" /\ use_tracker /\ pc = "returned"
            /\ received[c] # << >>) =>
           /\ received[c][Len(received[c])].progress_percent = 100
           /\ Cardinality({i \in DOMAIN received[c] :
                             received[c][i].progress_percent = 100}) = 1

LastResult == a_results[Len(a_results)]

\* the last _execute invocation of the current call returned normally
LastAttemptSucceeded == a_invocations = Len(a_errors) + 1

\* C6: an execute call (with retries) whose _execute fails k-1 times and then
\* succeeds returns one result, with status success and attempt = k; the
\* failed attempts add no result.
C6_RetryReporting ==
  a_variant = "backend" =>
    /\ a_pc = "try" => Len(a_results) = a_calls - 1
    /\ (a_pc = "returned" /\ LastAttemptSucceeded) =>
         /\ Len(a_results) = a_calls
         /\ LastResult.status = "success"
         /\ LastResult.attempt = Len(a_errors) + 1
         /\ LastResult.attempt \in 1..max_retries

C6_Witness ==
  /\ a_variant = "backend"
  /\ a_pc = "returned"
  /\ Len(a_errors) = 2
  /\ LastAttemptSucceeded
  /\ LastResult.status = "success"
  /\ LastResult.attempt = 3

C8_OneResultNeverRaises ==
  /\ a_raised = 0
  /\ Len(a_results) = IF a_pc = "try" THEN a_calls - 1 ELSE a_calls

C8_Witness ==
  /\ a_pc = "returned"
  /\ a_calls = 2
  /\ Len(a_results) = 2
  /\ a_results[1].status = "error"
  /\ a_results[2].status = "success"
  /\ Len(a_errors) = 1
  /\ a_raised = 0

\* C9: when start returns after a validator decision of APPROVE or REFINE, the
\* validator and the strategist have run exactly once each, in that order, no
\* other stage has run, status is awaiting_answers and clarifying_questions
\* are those of the strategist's output.
C9_StartPausesAfterStrategist ==
  op = "start" =>
    /\ calls["writer"] = 0 /\ calls["visual"] = 0 /\ calls["optimizer"] = 0
    /\ calls["validator"] <= 1 /\ calls["strategist"] <= calls["validator"]
    /\ (pc = "returned" /\ ~ValidatorRejected) =>
         /\ calls["validator"] = 1
         /\ calls["strategist"] = 1
         /\ Len(state.execution_log) = 2
         /\ state.execution_log[1].agent = "validator"
         /\ state.execution_log[2].agent = "strategist"
         /\ state.status = "awaiting_answers"
         /\ state.clarifying_questions =
              [kind |-> "list", items |-> state.strategy.clarifying_questions]
         /\ state.format = state.strategy.recommended_format

C9_Witness ==
  /\ op = "start"
  /\ pc = "returned"
  /\ DecisionOf(Get(state.validator_output, EmptyDict), "none") = DECISION_REFINE
  /\ state.status = "awaiting_answers"
  /\ state.clarifying_questions = [kind |-> "list", items |-> <<"q1">>]
  /\ calls["strategist"] = 1

\* C10: pause/resume round trip.  The status awaiting_answers is held only at
\* the one point where start has returned; continue_generation invokes neither
\* the validator nor the strategist, never comes back to awaiting_answers, and
\* when it returns the status is completed; it ends otherwise only when a
\* stage returned an error result.
C10_PauseResume ==
  /\ state.status = "awaiting_answers" => (pc = "returned" /\ op # "resume")
  /\ op = "resume" =>
       /\ ResumeCalls("validator") = 0
       /\ ResumeCalls("strategist") = 0
       /\ pc \in {"write", "visual", "optimize", "loop", "finalize",
                  "returned", "raised"}
       /\ pc = "returned" => state.status = "completed"
       /\ pc # "returned" => state.status = "processing"
       /\ pc = "raised" => AbortedByStageError

C10_Witness ==
  /\ op = "resume"
  /\ pc = "returned"
  /\ entry \in StartEntries
  /\ snap.status = "awaiting_answers"
  /\ resumes = 1
  /\ state.status = "completed"
  /\ calls["validator"] = 1
  /\ calls["strategist"] = 1

\* C11: subscriber isolation.  With callbacks that raise registered on the
\* tracker, no _emit call raises to its caller, every event of a call that
\* got the lock is in the log, the callbacks up to the one being awaited
\* (those after a raising one included) have been called with the event being
\* emitted, and no callback misses an event emitted since its registration.
C11_SubscriberIsolation ==
  /\ \A t \in Tasks : e_pc[t] # "raised"
  /\ Len(events) = e_emitted - Len(e_waiters)
  /\ \A t \in Tasks :
       e_pc[t] = "in_callback" =>
         \A i \in 1..e_idx[t] :
           LET got == received[callbacks[i]] IN
             /\ got # << >>
             /\ got[Len(got)] = e_event[t]
  /\ \A c \in Registered :
       Len(received[c]) >= Len(events) - e_reg[c] - InProgress

C11_Witness ==
  /\ callbacks = <<1, 2>>
  /\ faulty = {1}
  /\ e_reg[1] = 0 /\ e_reg[2] = 0
  /\ e_lock = 0
  /\ Len(events) = 2
  /\ received[1] = events
  /\ received[2] = events

\* C12: FIFO delivery.  Whatever the interleaving of the emitting tasks, the
\* events a callback has been called with are the log from its registration
\* point on (the events whose _emit call had not returned when it was
\* registered), in the order of the log, without gap or duplicate; only the
\* event being emitted may still be on its way to the callback.
C12_FifoDelivery ==
  \A c \in Registered :
    /\ Len(received[c]) <= Len(events) - e_reg[c]
    /\ Len(received[c]) >= Len(events) - e_reg[c] - InProgress
    /\ \A i \in DOMAIN received[c] :
         /\ e_reg[c] + i \in DOMAIN events
         /\ received[c][i] = events[e_reg[c] + i]

C12_Witness ==
  /\ callbacks = <<1, 2>>
  /\ e_pc[1] = "in_callback"
  /\ e_pc[2] = "waiting"
  /\ e_reg[2] = 1
  /\ Len(events) = 2
  /\ Len(received[1]) = 2
  /\ Len(received[2]) = 1
  /\ received[2][1] = events[2]

\* the statuses after which a run is over
TerminalStatuses == {"rejected", "completed"}

\* the run is over: it was rejected, completed, or its task failed with an
\* exception
RunOver ==
  /\ pc \in {"returned", "raised"}
  /\ state.status \in TerminalStatuses \/ pc = "raised"

DoneEvents == {i \in DOMAIN events : events[i].progress_percent = 100}

\* C13: once a tracked run is over (rejected, completed or failed), its
\* tracker has emitted exactly one event at progress 100, and that event is
\* the last of the log.
C13_OneDoneEvent ==
  (entry = "run_generation_with_tracking" /\ use_tracker /\ RunOver) =>
    /\ Cardinality(DoneEvents) = 1
    /\ events[Len(events)].progress_percent = 100

\* the state handed to the current continue_generation is one that resume
\* must refuse
InvalidForResume ==
  \/ snap.status # "awaiting_answers"
  \/ snap.state.revision_count > snap.state.max_revisions

\* C14: continue_generation on a state whose status is not awaiting_answers
\* or whose revision_count exceeds max_revisions ends with an error to the
\* caller, invokes no stage and leaves the state as it was.
C14_InvalidStateRejected ==
  (op = "resume" /\ InvalidForResume) =>
    /\ pc = "raised"
    /\ \A a \in Agents : ResumeCalls(a) = 0
    /\ state = snap.state

\* C15: whatever stages return an error result, continue_generation is never
\* aborted by an exception, and the state it returns has status completed
\* and a final_post.
C15_AlwaysReachesFinalize ==
  op = "resume" =>
    /\ pc # "raised"
    /\ pc = "returned" =>
         /\ state.status = "completed"
         /\ state.final_post # AbsentV

\* C16: start never raises: when the validator or the strategist returns an
\* error result, start still returns a state.
C16_StartNeverRaises ==
  op = "start" => pc # "raised"

\* C17: when the validator's decision is REJECT, the state start returns has
\* status rejected, whichever entry point was used.
C17_RejectedStatus ==
  (op = "start" /\ pc = "returned" /\ ValidatorRejected) =>
    state.status = "rejected"

\* the changes of status a run may go through
StatusSteps ==
  {<<"absent", "processing">>, <<"processing", "awaiting_answers">>,
   <<"awaiting_answers", "processing">>, <<"processing", "completed">>,
   <<"processing", "rejected">>}

\* C18: in a run created by start, status only moves along processing ->
\* awaiting_answers -> processing -> completed or processing -> rejected,
\* leaves awaiting_answers at most once, and never changes once it is
\* rejected or completed.
C18_StatusMonotonic ==
  [][entry' \in StartEntries =>
       \/ state'.status = state.status
       \/ /\ <<state.status, state'.status>> \in StatusSteps
          /\ state.status = "awaiting_answers" => resumes = 0]_vars

\* C19: a continue_generation issued on a run created by start after it had
\* reached a terminal status (through the answers/stream route when the run
\* is a tracked one, so with its post_id still in _tracked_states) invokes no
\* stage.
C19_NoStageAfterTerminal ==
  (/\ op = "resume"
   /\ entry \in StartEntries
   /\ snap.status \in TerminalStatuses
   /\ use_tracker => snap.tracked_states) =>
    \A a \in Agents : ResumeCalls(a) = 0

\* the agents of the entries of a log, in order
LogAgents(log) == [i \in DOMAIN log |-> log[i].agent]

\* the entries of one pass of continue_generation
PassAgents(format) ==
  IF format = FORMAT_CAROUSEL THEN <<"writer", "visual", "optimizer">>
  ELSE <<"writer", "optimizer">>

RECURSIVE Repeat(_, _)
Repeat(n, q) == IF n = 0 THEN << >> ELSE q \o Repeat(n - 1, q)

IsPrefix(p, q) == Len(p) <= Len(q) /\ SubSeq(q, 1, Len(p)) = p

\* the run was started by start, paused awaiting answers, and its resume has
\* returned
CompletedRun ==
  /\ entry \in StartEntries
  /\ op = "resume"
  /\ resumes = 1
  /\ snap.status = "awaiting_answers"
  /\ pc = "returned"

LogShape ==
  CompletedRun =>
    /\ state.status = "completed"
    /\ LogAgents(state.execution_log) =
         <<"validator", "strategist">> \o
         Repeat(state.revision_count + 1, PassAgents(state.format))
    /\ (state.format # FORMAT_CAROUSEL /\ ResumeLog[2].decision = "APPROVE") =>
         /\ Len(state.execution_log) = 4
         /\ state.revision_count = 0

\* C20: when a run completes, execution_log is one validator entry, one
\* strategist entry, then revision_count + 1 passes of writer, visual (for a
\* carousel) and optimizer; for a format other than carousel and an optimizer
\* that approves the first pass that is 4 entries, with revision_count 0 and
\* status completed.  Every step leaves the log it found as a prefix of the
\* log it leaves.
C20_ExecutionLogShape ==
  /\ []LogShape
  /\ [][IsPrefix(state.execution_log, state'.execution_log)]_vars

C20_Witness ==
  /\ CompletedRun
  /\ state.format = FORMAT_CAROUSEL
  /\ state.revision_count = 2
  /\ Len(state.execution_log) = 11
  /\ state.status = "completed"

\* C21: once a run served with tracking is over (completed, rejected or
\* failed by an exception), its post_id is a key neither of _tracked_states nor
\* of _active_trackers.
C21_RegistriesCleaned ==
  (entry = "run_generation_with_tracking" /\ RunOver) =>
    /\ ~tracked_states
    /\ ~active_trackers

\* number of events of a type emitted for an agent
EventCount(type, agent) ==
  Cardinality({i \in DOMAIN events :
                 events[i].event_type = type /\ events[i].agent_name = agent})

\* number of entries of execution_log left by an agent with a status
LogCount(agent, status) ==
  Cardinality({i \in DOMAIN state.execution_log :
                 /\ state.execution_log[i].agent = agent
                 /\ state.execution_log[i].status = status})

\* C23: in a tracked run every stage invocation has one agent_start event and,
\* once the stage has returned, one closing event: agent_complete for a
\* success result, agent_error for an error result.
C23_StageBracketing ==
  entry = "run_generation_with_tracking" =>
    \A a \in Agents :
      /\ EventCount("agent_start", a) = calls[a]
      /\ EventCount("agent_complete", a) = LogCount(a, "success")
      /\ EventCount("agent_error", a) = LogCount(a, "error")

\* the agents of the agent_complete events of the tracker, in order
RECURSIVE CompletedAgents(_)
CompletedAgents(evs) ==
  IF evs = << >> THEN << >>
  ELSE (IF Head(evs).event_type = "agent_complete"
          THEN <<Head(evs).agent_name>> ELSE << >>)
       \o CompletedAgents(Tail(evs))

\* C24: in a tracked run, at every point between stage invocations the agents
\* of the agent_complete events of tracker.events are the agents of
\* execution_log, in the same order.
C24_EventOrderMatchesLog ==
  (entry = "run_generation_with_tracking" /\ pc # "raised") =>
    CompletedAgents(events) = LogAgents(state.execution_log)

\* the highest of the scores of a non-empty list of hooks
TopScore(hooks) ==
  CHOOSE x \in {hooks[i] : i \in DOMAIN hooks} :
    \A i \in DOMAIN hooks : hooks[i] <= x

\* C26: the hook of the final_post of a completed run is the hook with the
\* highest score among the hooks of the latest writer output.
C26_TopScoredHook ==
  (op = "resume" /\ pc = "returned" /\ state.status = "completed"
     /\ state.writer_output.hooks # << >>) =>
    state.final_post.hook = TopScore(state.writer_output.hooks)

\* every event of a sequence was emitted by the run post_id
AllFrom(evs, post_id) == \A i \in DOMAIN evs : evs[i].detail = post_id

RunsSeparate ==
  /\ \A p \in PostIds : AllFrom(r_trackers[p].events, p)
  /\ \A c \in RunSubscribers :
       r_subs[c] # 0 => AllFrom(r_received[c], r_subs[c])

\* a step in which the run p does not move leaves its state and the log of
\* its tracker as they were
OthersUntouched ==
  \A p \in PostIds :
    r_pc'[p] = r_pc[p] =>
      /\ r_states'[p] = r_states[p]
      /\ r_trackers'[p].events = r_trackers[p].events

\* C22: with runs of distinct post_ids interleaved, the log of a run's tracker
\* holds only events of that run, a run's subscribers are called only with
\* events of that run, and a step of one run changes neither the state nor
\* the tracker log of another.
C22_RunsIndependent ==
  /\ []RunsSeparate
  /\ [][OthersUntouched]_vars

C22_Witness ==
  /\ r_pc[1] = "returned" /\ r_pc[2] = "returned"
  /\ r_subs[1] = 1 /\ r_subs[2] = 2
  /\ r_states[1].status = "rejected"
  /\ r_states[2].status = "awaiting_answers"
  /\ Len(r_received[1]) = 4
  /\ Len(r_received[2]) = 5

\* C25: the revise decision is a pure function: the routing function and the
\* loop condition answer write exactly when the optimizer's decision is REVISE
\* and revision_count < max_revisions, and leave the state they were given
\* as it was.
C25_ReviseDecisionPure ==
  d_pc \in {"routed", "evaluated"} =>
    /\ d_result = "write" <=>
         /\ DecisionOf(d_input.optimizer_output, "none") = "REVISE"
         /\ d_input.revision_count < d_input.max_revisions
    /\ d_state = d_input

\* C28: every event a tracker of the post emits, during generate/stream or
\* during the later answers/stream, is passed to HistoryService.save_event
\* at most once.
C28_SavedAtMostOnce ==
  \A i \in 1..Len(s_saves) : s_saves[i] <= 1

\* every request was answered and every background task has ended
Settled ==
  \A r \in Requests : s_pc[r] \in {"404", "done", "failed", "dead"}

\* C29: once the background task of a stream has finished, whichever way, and
\* nothing is left that could still put an event on its queue, the queue
\* holds a complete event or the None sentinel, so the stream ends.
C29_StreamEnds ==
  Settled =>
    \A r \in Requests : s_pc[r] # "404" => FirstClose(s_queue[r]) > 0

\* C30: when continue_generation_task completed and its stream has closed,
\* the final complete event the task put on the queue is among the events
\* the client received.
C30_FinalEventDelivered ==
  \A r \in Submits :
    s_pc[r] = "done" /\ s_closed[r] =>
      \E i \in 1..Len(Delivered(r)) : Delivered(r)[i] = FinalEvent

\* C27: for one run the resume phase executes at most once and user_answers
\* is written once, also with concurrent answer submissions for the post:
\* no two requests run the writer and optimizer stages on the stored state.
C27_ResumeOnce ==
  /\ Cardinality(Resumed) <= 1
  /\ p_answers <= 1

====
